---- MODULE Spec2Model ----
(***************************************************************************)
(* The terminal of src/src/App.tsx: the command registry built by          *)
(* generateCommands, the dispatcher executeCommand with its 300 ms typing  *)
(* delay and its detached 1000 ms download trigger, the submit and change  *)
(* handlers of the input form, and the one-second clock.                   *)
(*                                                                         *)
(* Text.  A JavaScript string is a sequence of fragments (TLA+ strings)    *)
(* whose concatenation is the string.  Text the code inspects character by *)
(* character (the input line, the command token, URLs, names) is written   *)
(* one character per fragment, so trim, toLowerCase, split and startsWith  *)
(* work on characters.  The empty string '' is << >>.  A template literal  *)
(* `a${x}b` is <<"a">> \o x \o <<"b">>.  An output is a sequence of lines. *)
(***************************************************************************)
EXTENDS Integers, Sequences, FiniteSets, TLC

VARIABLES
    commands,        \* useState<Command[]>: the history, entries [input, output]
    currentInput,    \* useState(''): the text in the input box
    isTyping,        \* useState(false): the Processing flag
    renderedAt,      \* clock value at the last render, when COMMANDS was rebuilt
    now,             \* the system clock (what new Date() returns), in seconds
    pending,         \* executeCommand calls suspended at the 300 ms await, oldest first
    downloadTimers,  \* outstanding setTimeout(..., 1000) download triggers
    download,        \* outcome of the last download trigger: "none", "started", "failed"
    crashed,         \* TRUE once a render threw and React unmounted the tree
    lastEvent,       \* the last handler that ran: "mount", "change", "timer", and for
                     \* handleSubmit "submit" (it called executeCommand) or "rejected"
    call,            \* a call of a formatter function on its own: [fn, arguments]
    result           \* what that call did: nothing yet, returned a value, or threw

vars == <<commands, currentInput, isTyping, renderedAt, now, pending,
          downloadTimers, download, crashed, lastEvent, call, result>>

(***************************************************************************)
(* Bounds of the model.                                                    *)
(***************************************************************************)
MaxHistory == 2
MaxClock == 1
MaxTimers == 1

(***************************************************************************)
(* Program constants.                                                      *)
(***************************************************************************)
TypingDelay == 300
DownloadDelay == 1000

(***************************************************************************)
(* String primitives of JavaScript, on character sequences.                *)
(***************************************************************************)
UpperCase == <<"A","B","C","D","E","F","G","H","I","J","K","L","M",
               "N","O","P","Q","R","S","T","U","V","W","X","Y","Z">>
LowerCase == <<"a","b","c","d","e","f","g","h","i","j","k","l","m",
               "n","o","p","q","r","s","t","u","v","w","x","y","z">>

\* String.prototype.trim strips these from both ends (of those a text input can hold)
WhiteSpace == {" ", "\t"}

charToLower(c) ==
    IF \E i \in 1..26 : UpperCase[i] = c
    THEN LowerCase[CHOOSE i \in 1..26 : UpperCase[i] = c]
    ELSE c

charToUpper(c) ==
    IF \E i \in 1..26 : LowerCase[i] = c
    THEN UpperCase[CHOOSE i \in 1..26 : LowerCase[i] = c]
    ELSE c

toLowerCase(s) == [i \in 1..Len(s) |-> charToLower(s[i])]

toUpperCase(s) == [i \in 1..Len(s) |-> charToUpper(s[i])]

trim(s) ==
    LET keep == {i \in 1..Len(s) : s[i] \notin WhiteSpace}
    IN  IF keep = {} THEN << >>
        ELSE LET lo == CHOOSE i \in keep : \A j \in keep : i <= j
                 hi == CHOOSE i \in keep : \A j \in keep : j <= i
             IN  SubSeq(s, lo, hi)

\* s.split(sep)[0] for a one-character separator: the text before the first sep
splitFirst(s, sep) ==
    LET at == {i \in 1..Len(s) : s[i] = sep}
    IN  IF at = {} THEN s
        ELSE SubSeq(s, 1, (CHOOSE i \in at : \A j \in at : i <= j) - 1)

startsWith(s, p) == Len(s) >= Len(p) /\ SubSeq(s, 1, Len(p)) = p

includes(s, c) == \E i \in 1..Len(s) : s[i] = c

\* s.replace(a, b) with one-character a: only the first occurrence is replaced
replaceFirst(s, a, b) ==
    LET at == {i \in 1..Len(s) : s[i] = a}
    IN  IF at = {} THEN s
        ELSE LET k == CHOOSE i \in at : \A j \in at : i <= j
             IN  [i \in 1..Len(s) |-> IF i = k THEN b ELSE s[i]]

RECURSIVE repeat(_, _)
repeat(c, n) == IF n <= 0 THEN << >> ELSE <<c>> \o repeat(c, n - 1)

RECURSIVE flatten(_)
flatten(ss) == IF ss = << >> THEN << >> ELSE Head(ss) \o flatten(Tail(ss))

\* s.split(sep) for a one-fragment separator: every piece, empty ones included
RECURSIVE split(_, _)
split(s, sep) ==
    LET at == {i \in 1..Len(s) : s[i] = sep}
    IN  IF at = {} THEN <<s>>
        ELSE LET k == CHOOSE i \in at : \A j \in at : i <= j
             IN  <<SubSeq(s, 1, k - 1)>> \o split(SubSeq(s, k + 1, Len(s)), sep)

padEnd(s, n) == s \o repeat(" ", n - Len(s))

(***************************************************************************)
(* portfolioData (./data/portfolio.json): a small document of the shape    *)
(* the code reads.  Fields the code only interpolates are one fragment;    *)
(* fields it inspects are written one character per fragment.              *)
(***************************************************************************)
portfolioData ==
    [ personal |->
        [ name      |-> <<"A", "d", "a", " ", "L", " ", "B">>,
          title     |-> <<"Engineer">>,
          username  |-> <<"ada">>,
          website   |-> <<"a", "d", "a", ".", "d", "e", "v">>,
          location  |-> <<"Earth">>,
          resumeUrl |-> <<"h", "t", "t", "p", "s", ":", "/", "/", "r", ".", "p", "d", "f">> ],
      contact |->
        [ email    |-> <<"a", "@", "b", ".", "c">>,
          linkedin |-> <<"h", "t", "t", "p", "s", ":", "/", "/", "l", "n">>,
          github   |-> <<"#">>,
          phone    |-> <<"555">> ],
      about |-> << <<"About line 1">>, <<"About line 2">> >>,
      skills |->
        << [ category |-> <<"Languages">>,
             skills   |-> << [name |-> <<"T", "S">>, level |-> 90],
                             [name |-> <<"G", "o">>, level |-> 50] >> ],
           [ category |-> <<"Tools">>,
             skills   |-> << [name |-> <<"G", "i", "t">>, level |-> 72] >> ] >>,
      projects |->
        << [ name        |-> <<"Terminal">>,
             description |-> <<"a", " ", "b", "b", " ", " ", "c", "\\n", "\\n", "d">>,
             techStack   |-> <<"React">>,
             github      |-> <<"g", "h", ".", "i", "o">>,
             status      |-> <<"Done">> ],
           [ name        |-> <<"Empty">>,
             description |-> <<" ">>,
             techStack   |-> <<"None">>,
             github      |-> << >>,
             status      |-> <<"Idea">> ] >>,
      education |->
        [ period |-> <<"2021-2025">>, degree |-> <<"BSc">>, university |-> <<"U">>,
          gpa |-> <<"4.0">>, coursework |-> << <<"Algorithms">>, <<"Compilers">> >>,
          expectedGraduation |-> <<"2025">> ],
      files |->
        << [ name |-> <<"projects">>, type |-> "directory", permissions |-> <<"drwxr-xr-x">>,
             size |-> <<"4096">>, date |-> <<"Jan 1">> ],
           [ name |-> <<"resume.pdf">>, type |-> "file", permissions |-> <<"-rw-r--r--">>,
             size |-> <<"1024">>, date |-> <<"Jan 2">> ] >>,
      system |->
        [ os |-> <<"os">>, host |-> <<"host">>, kernel |-> <<"kernel">>,
          uptime |-> <<"uptime">>, shell |-> <<"shell">>, resolution |-> <<"resolution">>,
          terminal |-> <<"terminal">>, cpu |-> <<"cpu">>, memory |-> <<"memory">>,
          disk |-> <<"disk">>, projectsCompleted |-> <<"3">>,
          primaryLanguages |-> <<"languages">>, frameworks |-> <<"frameworks">>,
          databases |-> <<"databases">>, tools |-> <<"tools">> ] ]

(***************************************************************************)
(* Helpers of the Content Formatter.                                       *)
(***************************************************************************)
\* a placeholder test that forgets to trim the url
makeClickableLink2_NoTrim(url, text) ==
    IF url = << >> \/ url = <<"#">>
    THEN IF text # << >> THEN text ELSE url
    ELSE LET displayText == IF text # << >> THEN text ELSE url
             http   == <<"h", "t", "t", "p", ":", "/", "/">>
             https  == <<"h", "t", "t", "p", "s", ":", "/", "/">>
             mailto == <<"m", "a", "i", "l", "t", "o", ":">>
             href   == IF ~startsWith(url, http) /\ ~startsWith(url, https)
                          /\ ~startsWith(url, mailto)
                       THEN IF includes(url, "@") /\ ~startsWith(url, mailto)
                            THEN mailto \o url
                            ELSE https \o url
                       ELSE url
         IN  <<"<a href=\"">> \o href
               \o <<"\" target=\"_blank\" class=\"text-cyan-400 hover:underline\">">>
               \o displayText \o <<"</a>">>

\* `text || url`: the label when it is a non-empty string, otherwise the url
makeClickableLink2(url, text) ==
    IF url = << >> \/ trim(url) = <<"#">> \/ trim(url) = << >>
    THEN IF text # << >> THEN text ELSE url
    ELSE LET displayText == IF text # << >> THEN text ELSE url
             http   == <<"h", "t", "t", "p", ":", "/", "/">>
             https  == <<"h", "t", "t", "p", "s", ":", "/", "/">>
             mailto == <<"m", "a", "i", "l", "t", "o", ":">>
             href   == IF ~startsWith(url, http) /\ ~startsWith(url, https)
                          /\ ~startsWith(url, mailto)
                       THEN IF includes(url, "@") /\ ~startsWith(url, mailto)
                            THEN mailto \o url
                            ELSE https \o url
                       ELSE url
         IN  <<"<a href=\"">> \o href
               \o <<"\" target=\"_blank\" class=\"text-cyan-400 hover:underline\">">>
               \o displayText \o <<"</a>">>

\* the call with the optional label left out (text is undefined)
makeClickableLink(url) == makeClickableLink2(url, << >>)

totalBars == 20

\* what String.prototype.repeat throws for a negative count
RangeError == <<"RangeError: Invalid count value">>

\* a skill bar that truncates (Math.floor) instead of rounding
generateSkillBar_Truncates(level) ==
    LET filledBars == (level * totalBars) \div 100
    IN  IF filledBars < 0 \/ totalBars - filledBars < 0
        THEN RangeError
        ELSE repeat("#", filledBars) \o repeat(" ", totalBars - filledBars)

\* "#" stands for the filled cell, " " for the blank one
generateSkillBar(level) ==
    LET filledBars == (level * totalBars + 50) \div 100   \* Math.round((level/100)*20)
    IN  IF filledBars < 0 \/ totalBars - filledBars < 0
        THEN RangeError
        ELSE repeat("#", filledBars) \o repeat(" ", totalBars - filledBars)

formatFileList ==
    LET user == portfolioData.personal.username
        row(file) ==
            LET typeIndicator == IF file.type = "directory" THEN <<"/">> ELSE << >>
            IN  file.permissions \o <<"  2 ">> \o user \o <<" ">> \o user \o <<" ">>
                  \o file.size \o <<" ">> \o file.date \o <<" ">> \o file.name
                  \o typeIndicator
    IN  << <<"total 8">> >>
          \o [i \in 1..Len(portfolioData.files) |-> row(portfolioData.files[i])]

(***************************************************************************)
(* The projects block: greedy word wrap of each description.               *)
(***************************************************************************)
baseIndent == <<"   ">>
firstLineItemPrefix == <<"|-- ">>
subsequentLineItemPrefix == <<"|   ">>
lastLineItemPrefix == <<"+-- ">>
descriptionLabel == <<"Description: ">>
descriptionContinuationIndent == <<"             ">>
textContentWidth == 75

\* result.push of one description line: labelled when it is the first, else indented
pushLine(st, text) ==
    [ result |-> Append(st.result,
                        IF st.isFirst
                        THEN baseIndent \o firstLineItemPrefix \o descriptionLabel \o text
                        ELSE baseIndent \o subsequentLineItemPrefix
                               \o descriptionContinuationIndent \o text),
      lineBuffer |-> st.lineBuffer,
      isFirst |-> FALSE ]

\* a wrap that starts a fresh line for an overlong word and then forgets the word
wrapWord_DropsOverlong(st, word, width) ==
    LET potentialLine == IF st.lineBuffer = << >> THEN word
                         ELSE st.lineBuffer \o <<" ">> \o word
    IN  IF Len(potentialLine) <= width
        THEN [st EXCEPT !.lineBuffer = potentialLine]
        ELSE LET flushed == IF st.lineBuffer # << >> THEN pushLine(st, st.lineBuffer) ELSE st
             IN  [flushed EXCEPT !.lineBuffer = IF Len(word) > width THEN << >> ELSE word]

\* a wrap that lets a line run one character over the width
wrapWord_OneOver(st, word, width) ==
    LET potentialLine == IF st.lineBuffer = << >> THEN word
                         ELSE st.lineBuffer \o <<" ">> \o word
    IN  IF Len(potentialLine) <= width + 1
        THEN [st EXCEPT !.lineBuffer = potentialLine]
        ELSE LET flushed == IF st.lineBuffer # << >> THEN pushLine(st, st.lineBuffer) ELSE st
                 started == [flushed EXCEPT !.lineBuffer = word]
             IN  IF Len(word) > width /\ started.lineBuffer # << >>
                 THEN [pushLine(started, started.lineBuffer) EXCEPT !.lineBuffer = << >>]
                 ELSE started

\* one iteration of the for loop over the words of a segment
wrapWord(st, word, width) ==
    LET potentialLine == IF st.lineBuffer = << >> THEN word
                         ELSE st.lineBuffer \o <<" ">> \o word
    IN  IF Len(potentialLine) <= width
        THEN [st EXCEPT !.lineBuffer = potentialLine]
        ELSE LET flushed == IF st.lineBuffer # << >> THEN pushLine(st, st.lineBuffer) ELSE st
                 started == [flushed EXCEPT !.lineBuffer = word]
             IN  IF Len(word) > width /\ started.lineBuffer # << >>
                 THEN [pushLine(started, started.lineBuffer) EXCEPT !.lineBuffer = << >>]
                 ELSE started

RECURSIVE wrapWords(_, _, _)
wrapWords(st, words, width) ==
    IF words = << >> THEN st
    ELSE wrapWords(wrapWord(st, Head(words), width), Tail(words), width)

\* the body of segments.forEach
wrapSegment(st, segment, width) ==
    IF trim(segment) = << >> /\ ~st.isFirst
    THEN [st EXCEPT !.result = Append(st.result, baseIndent \o subsequentLineItemPrefix)]
    ELSE LET done == wrapWords([st EXCEPT !.lineBuffer = << >>], split(segment, " "), width)
         IN  IF done.lineBuffer # << >> THEN pushLine(done, done.lineBuffer) ELSE done

RECURSIVE wrapSegments(_, _, _)
wrapSegments(st, segments, width) ==
    IF segments = << >> THEN st
    ELSE wrapSegments(wrapSegment(st, Head(segments), width), Tail(segments), width)

\* the description lines of one project; the two characters backslash, n that
\* split('\\n') looks for are the single fragment "\\n"
formatDescription(actualDescription, width) ==
    IF actualDescription # << >> /\ trim(actualDescription) # << >>
    THEN wrapSegments([result |-> << >>, lineBuffer |-> << >>, isFirst |-> TRUE],
                      split(actualDescription, "\\n"), width).result
    ELSE << baseIndent \o firstLineItemPrefix \o descriptionLabel >>

projectBlock(project, index) ==
    << <<ToString(index), ". ">> \o project.name >>
      \o formatDescription(project.description, textContentWidth)
      \o << baseIndent \o firstLineItemPrefix \o <<"Tech Stack: ">> \o project.techStack,
            baseIndent \o firstLineItemPrefix \o <<"GitHub: ">>
              \o makeClickableLink(project.github),
            baseIndent \o lastLineItemPrefix \o <<"Status: ">> \o project.status,
            << >> >>

skillsBlock(entry) ==
    LET n == Len(entry.skills)
        row(index) ==
            LET skill == entry.skills[index]
                prefix == IF index = n THEN <<"  +--">> ELSE <<"  |--">>
            IN  prefix \o <<" ">> \o padEnd(skill.name, 20) \o <<" ">>
                  \o generateSkillBar(skill.level) \o <<" ", ToString(skill.level), "%">>
    IN  << entry.category \o <<":">> >> \o [i \in 1..n |-> row(i)] \o << << >> >>

(***************************************************************************)
(* generateCommands: the registry, name -> [description, output].  Names   *)
(* are character sequences, as the dispatcher's token is.  `built` is the  *)
(* clock value new Date() returns while the registry is being built.       *)
(***************************************************************************)
help == <<"h", "e", "l", "p">>
about == <<"a", "b", "o", "u", "t">>
skills == <<"s", "k", "i", "l", "l", "s">>
projects == <<"p", "r", "o", "j", "e", "c", "t", "s">>
education == <<"e", "d", "u", "c", "a", "t", "i", "o", "n">>
contact == <<"c", "o", "n", "t", "a", "c", "t">>
resume == <<"r", "e", "s", "u", "m", "e">>
whoami == <<"w", "h", "o", "a", "m", "i">>
pwd == <<"p", "w", "d">>
ls == <<"l", "s">>
date == <<"d", "a", "t", "e">>
neofetch == <<"n", "e", "o", "f", "e", "t", "c", "h">>
clear == <<"c", "l", "e", "a", "r">>
downloadName == <<"d", "o", "w", "n", "l", "o", "a", "d">>

\* new Date().toString() at clock value t
dateString(t) == <<"Date ", ToString(t)>>

\* the registry the body of generateCommands builds from the document data at clock
\* value built
generateCommandsFrom(data, built) ==
    LET pd == data
        edu == pd.education
        n == Len(edu.coursework)
    IN
    (help :> [ description |-> <<"Show available commands">>,
               output |-> << <<"Available commands:">>,
                             <<"  help          - Show this help message">>,
                             <<"  about         - Learn about me">>,
                             <<"  skills        - View my technical skills">>,
                             <<"  projects      - See my projects">>,
                             <<"  education     - See my educational background">>,
                             <<"  contact       - Get my contact information">>,
                             <<"  resume        - View resume and download link">>,
                             <<"  download      - Download resume PDF">>,
                             <<"  clear         - Clear the terminal">>,
                             <<"  whoami        - Display current user">>,
                             <<"  ls            - List directory contents">>,
                             <<"  pwd           - Print working directory">>,
                             <<"  date          - Show current date and time">>,
                             <<"  neofetch      - Display system information">> >> ])
    @@ (about :> [ description |-> <<"Learn about me">>,
                   output |-> << pd.personal.name \o <<" - ">> \o pd.personal.title,
                                 << >> >> \o pd.about ])
    @@ (skills :> [ description |-> <<"View technical skills">>,
                    output |-> << <<"Technical Skills:">>, << >> >>
                                 \o flatten([i \in 1..Len(pd.skills) |->
                                               skillsBlock(pd.skills[i])]) ])
    @@ (projects :> [ description |-> <<"See my projects">>,
                      output |-> << <<"Projects Portfolio:">>, << >> >>
                                   \o flatten([i \in 1..Len(pd.projects) |->
                                                 projectBlock(pd.projects[i], i)]) ])
    @@ (education :> [ description |-> <<"See educational background">>,
                       output |-> << <<"Education:">>,
                                     << >>,
                                     edu.period \o <<" | ">> \o edu.degree,
                                     <<"|-- University: ">> \o edu.university,
                                     <<"|-- GPA: ">> \o edu.gpa,
                                     <<"|-- Relevant Coursework:">> >>
                                    \o [i \in 1..n |->
                                          (IF i = n THEN <<"|   +--">> ELSE <<"|   |--">>)
                                            \o <<" ">> \o edu.coursework[i]]
                                    \o << <<"+-- Expected Graduation: ">>
                                            \o edu.expectedGraduation,
                                          << >> >> ])
    @@ (contact :> [ description |-> <<"Get contact information">>,
                     output |-> << <<"Contact Information:">>,
                                   << >>,
                                   <<"Email:    ">> \o makeClickableLink(pd.contact.email),
                                   <<"LinkedIn: ">> \o makeClickableLink(pd.contact.linkedin),
                                   <<"GitHub:   ">> \o makeClickableLink(pd.contact.github),
                                   <<"Website:  ">> \o makeClickableLink(pd.personal.website),
                                   <<"Phone:    ">> \o pd.contact.phone,
                                   <<"Location: ">> \o pd.personal.location,
                                   << >>,
                                   <<"Feel free to reach out for opportunities, collaborations,">>,
                                   <<"or just to have a chat about technology!">> >> ])
    @@ (resume :> [ description |-> <<"View resume and download link">>,
                    output |-> << <<"=====">>,
                                  <<"    ">> \o toUpperCase(pd.personal.name) \o <<"    ">>,
                                  <<"    ">> \o pd.personal.title \o <<"    ">>,
                                  <<"=====">>,
                                  << >>,
                                  makeClickableLink(pd.contact.email) \o <<"  ">>
                                    \o pd.contact.phone,
                                  makeClickableLink(pd.contact.linkedin) \o <<"  ">>
                                    \o makeClickableLink(pd.contact.github),
                                  << >>,
                                  edu.degree \o <<" (">> \o edu.period \o <<") - GPA: ">>
                                    \o edu.gpa,
                                  pd.system.primaryLanguages,
                                  << >>,
                                  <<"Download PDF: ">>
                                    \o makeClickableLink(pd.personal.resumeUrl),
                                  << >>,
                                  <<"Use \"education\", \"skills\" for details!">> >> ])
    @@ (whoami :> [ description |-> <<"Display current user">>,
                    output |-> << pd.personal.username >> ])
    @@ (pwd :> [ description |-> <<"Print working directory">>,
                 output |-> << <<"/home/">> \o pd.personal.username \o <<"/portfolio">> >> ])
    @@ (ls :> [ description |-> <<"List directory contents">>,
                output |-> formatFileList ])
    @@ (date :> [ description |-> <<"Show current date and time">>,
                  output |-> << dateString(built) >> ])
    @@ (neofetch :> [ description |-> <<"Display system information">>,
                      output |-> << <<"<pre class=\"terminal-ascii-art\">">>
                                      \o pd.personal.username \o <<"@portfolio">>
                                      \o <<" OS: ">> \o pd.system.os
                                      \o <<" Host: ">> \o pd.system.host
                                      \o <<" Kernel: ">> \o pd.system.kernel
                                      \o <<" Uptime: ">> \o pd.system.uptime
                                      \o <<" Shell: ">> \o pd.system.shell
                                      \o <<" Resolution: ">> \o pd.system.resolution
                                      \o <<" Terminal: ">> \o pd.system.terminal
                                      \o <<" CPU: ">> \o pd.system.cpu
                                      \o <<" Memory: ">> \o pd.system.memory
                                      \o <<" Disk: ">> \o pd.system.disk
                                      \o <<" Projects: ">> \o pd.system.projectsCompleted
                                      \o <<" completed">>
                                      \o <<" Languages: ">> \o pd.system.primaryLanguages
                                      \o <<" Frameworks: ">> \o pd.system.frameworks
                                      \o <<" Database: ">> \o pd.system.databases
                                      \o <<" Tools: ">> \o pd.system.tools
                                      \o <<"</pre>">> >> ])

generateCommands(built) == generateCommandsFrom(portfolioData, built)

TypeError == <<"TypeError: Cannot read properties of undefined">>

\* fields whose absence makes the build dereference undefined:
\* personal.name.toUpperCase() and education.coursework.forEach(...)
DereferencedFields == { <<"personal", "name">>, <<"education", "coursework">> }

\* fields that are only interpolated into template literals
InterpolatedFields ==
    { <<"personal", "title">>, <<"personal", "location">>, <<"contact", "phone">>,
      <<"education", "gpa">>, <<"system", "os">> }

\* a template literal turns the undefined value of a missing field into this text
without(data, field) == [data EXCEPT ![field[1]][field[2]] = <<"undefined">>]

\* generateCommands() over a document that lacks one field (<< >>: lacks none)
buildWithout(field, built) ==
    IF field \in DereferencedFields
    THEN [state |-> "thrown", error |-> TypeError]
    ELSE [state |-> "returned",
          value |-> IF field = << >> THEN generateCommands(built)
                    ELSE generateCommandsFrom(without(portfolioData, field), built)]

\* a registry in which neofetch reports the time of the build
registryAt_UptimeFromClock ==
    [t \in 0..MaxClock |->
        [generateCommands(t) EXCEPT ![neofetch].output = << <<"Uptime: ">> \o dateString(t) >>]]

(***************************************************************************)
(* The component's state and the registry its closures hold.               *)
(***************************************************************************)
\* generateCommands() of every clock value a render can happen at
registryAt == [t \in 0..MaxClock |-> generateCommands(t)]

\* const COMMANDS = generateCommands(): rebuilt by every render of App
COMMANDS == registryAt[renderedAt]

\* (the timestamp field of a Command is written and never read; it is left out)
welcomeCommand ==
    [ input  |-> << >>,
      output |-> << <<"Welcome to ">> \o portfolioData.personal.name
                      \o <<"'s Portfolio Terminal">>,
                    << >>,
                    <<"<pre class=\"terminal-ascii-art\">TERMINAL</pre>">>,
                    << >>,
                    <<"Type \"help\" to get started or \"about\" to learn more about me.">> >> ]

\* the lines of a history entry handed to dangerouslySetInnerHTML, parsed as HTML
renderedAsHtml(entry) == entry.output

\* the echo of a history entry, a text child of its span
renderedAsText(entry) == entry.input

\* names every object literal inherits from Object.prototype that are all lower case,
\* so that a lower-cased token can be one of them
constructor == <<"c", "o", "n", "s", "t", "r", "u", "c", "t", "o", "r">>
proto == <<"_", "_", "p", "r", "o", "t", "o", "_", "_">>
ObjectPrototypeNames == {constructor, proto}

\* the value of `.output` read from an object that has no such property
undefined == << <<"undefined">> >>

\* the truth value of COMMANDS[command]
hasCommand(registry, command) ==
    command \in DOMAIN registry \/ command \in ObjectPrototypeNames

\* COMMANDS[command].output
outputOf(registry, command) ==
    IF command \in DOMAIN registry THEN registry[command].output ELSE undefined

downloadOutput ==
    LET fileName == replaceFirst(portfolioData.personal.name, " ", "_") \o <<"_Resume.pdf">>
    IN  << <<"Initiating download...">>,
           << >>,
           <<"Downloading: ">> \o fileName,
           <<"Source: ">> \o makeClickableLink(portfolioData.personal.resumeUrl),
           << >>,
           <<"If download doesn't start automatically, click the link above.">> >>

notFoundOutput(command) ==
    << <<"Command not found: ">> \o command,
       <<"Type \"help\" to see available commands.">> >>

\* const [command, ...args] = input.trim().toLowerCase().split(' ')
commandOf(input) == splitFirst(toLowerCase(trim(input)), " ")

\* an if-chain whose explicit resume branch returns another block than the table's
resolveOutput_ResumeDiverges(command, registry) ==
    IF command = << >> THEN << << >> >>
    ELSE IF command = resume THEN downloadOutput
    ELSE IF command = downloadName THEN downloadOutput
    ELSE IF hasCommand(registry, command) THEN outputOf(registry, command)
    ELSE notFoundOutput(command)

\* the if-chain of executeCommand that assigns `output` (the clear branch returns early)
resolveOutput(command, registry) ==
    IF command = << >> THEN << << >> >>
    ELSE IF command = resume THEN registry[resume].output
    ELSE IF command = downloadName THEN downloadOutput
    ELSE IF hasCommand(registry, command) THEN outputOf(registry, command)
    ELSE notFoundOutput(command)

\* download triggers that cannot fire yet: a trigger is set together with the 300 ms
\* timer of its own resolution and is due 1000 ms later, so it fires after that timer
\* no formatter call is under way: the session runs
noCall == [fn |-> "none"]
noResult == [state |-> "none"]

heldTimers ==
    IF TypingDelay < DownloadDelay
    THEN Cardinality({i \in DOMAIN pending : commandOf(pending[i].input) = downloadName})
    ELSE 0

Init ==
    /\ commands = <<welcomeCommand>>
    /\ currentInput = << >>
    /\ isTyping = FALSE
    /\ renderedAt = 0
    /\ now = 0
    /\ pending = << >>
    /\ downloadTimers = 0
    /\ download = "none"
    /\ crashed = FALSE
    /\ lastEvent = "mount"
    /\ call = noCall
    /\ result = noResult

\* an executeCommand that appends its entry before the delay
executeCommand_AppendEarly(input) ==
    LET command == commandOf(input)
    IN  IF command # << >> /\ command = clear
        THEN /\ commands' = << >>
             /\ currentInput' = << >>
             /\ isTyping' = FALSE
             /\ UNCHANGED <<pending, downloadTimers>>
        ELSE /\ isTyping' = TRUE
             /\ commands' = Append(commands, [ input  |-> input,
                                               output |-> resolveOutput(command, COMMANDS) ])
             /\ pending' = Append(pending, [ input  |-> input,
                                             output |-> resolveOutput(command, COMMANDS) ])
             /\ downloadTimers' = IF command = downloadName
                                  THEN downloadTimers + 1 ELSE downloadTimers
             /\ UNCHANGED currentInput

\* an executeCommand whose clear branch falls through to the table lookup
executeCommand_ClearRecorded(input) ==
    LET command == commandOf(input)
    IN  /\ isTyping' = TRUE
        /\ pending' = Append(pending, [ input  |-> input,
                                        output |-> resolveOutput(command, COMMANDS) ])
        /\ downloadTimers' = IF command = downloadName
                             THEN downloadTimers + 1 ELSE downloadTimers
        /\ UNCHANGED <<commands, currentInput>>

\* executeCommand up to its await, with the render its state updates cause
executeCommand(input) ==
    LET command == commandOf(input)
    IN  IF command # << >> /\ command = clear
        THEN /\ commands' = << >>
             /\ currentInput' = << >>
             /\ isTyping' = FALSE
             /\ UNCHANGED <<pending, downloadTimers>>
        ELSE /\ isTyping' = TRUE
             /\ pending' = Append(pending, [ input  |-> input,
                                             output |-> resolveOutput(command, COMMANDS) ])
             /\ downloadTimers' = IF command = downloadName
                                  THEN downloadTimers + 1 ELSE downloadTimers
             /\ UNCHANGED <<commands, currentInput>>

\* the model's bounds on what a submission may add
withinBounds(input) ==
    \/ commandOf(input) = clear
    \/ /\ Len(commands) + Len(pending) < MaxHistory
       /\ commandOf(input) = downloadName => downloadTimers < MaxTimers

\* a submit handler that joins its two tests with || instead of &&
accepts_EitherTest(input) == trim(input) # << >> \/ ~isTyping

\* a submit handler that forgets the emptiness test
accepts_IgnoreEmpty(input) == ~isTyping

\* a submit handler that forgets the isTyping test
accepts_IgnoreTyping(input) == trim(input) # << >>

\* if (currentInput.trim() && !isTyping)
accepts(input) == trim(input) # << >> /\ ~isTyping

handleSubmit ==
    /\ UNCHANGED <<call, result>>
    /\ ~crashed
    /\ lastEvent' = IF accepts(currentInput) THEN "submit" ELSE "rejected"
    /\ IF accepts(currentInput)
       THEN /\ withinBounds(currentInput)
            /\ executeCommand(currentInput)
            /\ renderedAt' = now
            /\ UNCHANGED <<now, download, crashed>>
       ELSE UNCHANGED <<commands, currentInput, isTyping, renderedAt, now, pending,
                        downloadTimers, download, crashed>>

\* onChange of the input box, which is disabled while isTyping
onChange(value) ==
    /\ UNCHANGED <<call, result>>
    /\ ~crashed
    /\ ~isTyping
    /\ value # currentInput
    /\ currentInput' = value
    /\ renderedAt' = now
    /\ lastEvent' = "change"
    /\ UNCHANGED <<commands, isTyping, now, pending, downloadTimers, download, crashed>>

\* the rest of executeCommand, run when the 300 ms timer fires.  An entry whose output
\* is undefined makes the render throw at command.output.map: React unmounts the tree
\* and the state update is never committed.
DelayElapsed ==
    /\ UNCHANGED <<call, result>>
    /\ pending # << >>
    /\ pending' = Tail(pending)
    /\ lastEvent' = "timer"
    /\ LET newCommand == [input |-> Head(pending).input, output |-> Head(pending).output]
       IN  IF crashed
           THEN UNCHANGED <<commands, currentInput, isTyping, renderedAt, crashed>>
           ELSE IF newCommand.output = undefined
           THEN /\ crashed' = TRUE
                /\ UNCHANGED <<commands, currentInput, isTyping, renderedAt>>
           ELSE /\ commands' = Append(commands, newCommand)
                /\ currentInput' = << >>
                /\ isTyping' = FALSE
                /\ renderedAt' = now
                /\ UNCHANGED crashed
    /\ UNCHANGED <<now, downloadTimers, download>>

\* a download callback that reports its outcome into the session
FireDownload_Reports ==
    /\ UNCHANGED <<call, result>>
    /\ downloadTimers > heldTimers
    /\ downloadTimers' = downloadTimers - 1
    /\ download' \in {"started", "failed"}
    /\ lastEvent' = "timer"
    /\ commands' = IF download' = "failed"
                   THEN Append(commands, [input |-> << >>, output |-> << <<"failed">> >>])
                   ELSE commands
    /\ UNCHANGED <<currentInput, isTyping, renderedAt, now, pending, crashed>>

\* the callback of setTimeout(..., 1000): creates the link and clicks it
FireDownload ==
    /\ UNCHANGED <<call, result>>
    /\ downloadTimers > heldTimers
    /\ downloadTimers' = downloadTimers - 1
    /\ download' \in {"started", "failed"}
    /\ lastEvent' = "timer"
    /\ UNCHANGED <<commands, currentInput, isTyping, renderedAt, now, pending, crashed>>

\* the setInterval callback: setCurrentTime(new Date()) re-renders the component
Tick ==
    /\ UNCHANGED <<call, result>>
    /\ ~crashed
    /\ renderedAt' = now
    /\ lastEvent' = "timer"
    /\ UNCHANGED <<commands, currentInput, isTyping, now, pending, downloadTimers,
                   download, crashed>>

\* time passes
AdvanceClock ==
    /\ UNCHANGED <<call, result>>
    /\ now < MaxClock
    /\ now' = now + 1
    /\ UNCHANGED <<commands, currentInput, isTyping, renderedAt, pending, downloadTimers,
                   download, crashed, lastEvent>>

(***************************************************************************)
(* The lines a user types.                                                 *)
(***************************************************************************)
foo == <<"f", "o", "o">>

TypedInputs ==
    { << >>, <<" ">>, help, <<" ">> \o <<"H", "e", "l", "p">> \o <<" ", "x">>,
      clear, downloadName, date, foo, constructor }

Next ==
    \/ \E value \in TypedInputs : onChange(value)
    \/ handleSubmit
    \/ DelayElapsed
    \/ FireDownload
    \/ Tick
    \/ AdvanceClock

Spec == Init /\ [][Next]_vars

(***************************************************************************)
(* Dispatch of one line from a fresh session: the line in the input box is *)
(* any of AllInputs, typed before the first step.                          *)
(***************************************************************************)
AllInputs ==
    TypedInputs
    \cup { about, skills, projects, education, contact, resume, whoami, pwd, ls, neofetch,
           proto,
           <<"H", "E", "L", "P">>,
           <<"\t">> \o help \o <<" ">>,
           help \o <<" ", " ", "x">>,
           help \o <<"\t", "x">>,
           <<"R", "e", "s", "u", "m", "e">>,
           <<"F", "o", "o">>,
           foo \o <<" ">> \o help,
           <<" ">> \o <<"C", "l", "e", "a", "r">>,
           <<"\t", " ">>,
           <<"<", "b", ">">> }

InitDispatch ==
    /\ commands = <<welcomeCommand>>
    /\ currentInput \in AllInputs
    /\ isTyping = FALSE
    /\ renderedAt = 0
    /\ now = 0
    /\ pending = << >>
    /\ downloadTimers = 0
    /\ download = "none"
    /\ crashed = FALSE
    /\ lastEvent = "change"
    /\ call = noCall
    /\ result = noResult

NextDispatch ==
    \/ handleSubmit
    \/ DelayElapsed
    \/ FireDownload
    \/ Tick
    \/ AdvanceClock

SpecDispatch == InitDispatch /\ [][NextDispatch]_vars

(***************************************************************************)
(* The formatter functions called on their own: one call, drawn in the     *)
(* initial state, is applied by the action of its function.  The session   *)
(* stays as it is after mounting.                                          *)
(***************************************************************************)
LevelMargin == 10

\* generateSkillBar(level) for the integer levels of 0..100 and a margin around them
SkillBarCalls ==
    { [fn |-> "generateSkillBar", level |-> l] : l \in (0 - LevelMargin)..(100 + LevelMargin) }

\* the urls makeClickableLink is called with: placeholders, bare hosts and emails,
\* the three schemes the code knows, and schemes it does not know or not in that case
LinkUrls ==
    { << >>,
      <<" ">>,
      <<"#">>,
      <<" ", "#", " ">>,
      <<"a", ".", "b">>,
      <<"a", "@", "b">>,
      <<"h", "t", "t", "p", ":", "/", "/", "a">>,
      <<"h", "t", "t", "p", "s", ":", "/", "/", "a">>,
      <<"m", "a", "i", "l", "t", "o", ":", "a", "@", "b">>,
      <<"H", "T", "T", "P", ":", "/", "/", "a">>,
      <<"H", "t", "t", "p", "s", ":", "/", "/", "a">>,
      <<"M", "a", "i", "l", "t", "o", ":", "a", "@", "b">>,
      <<"f", "t", "p", ":", "/", "/", "a">>,
      <<"t", "e", "l", ":", "1">> }

\* the optional label: left out, or given
LinkTexts == { << >>, <<"x">>, <<"#">> }

LinkCalls ==
    { [fn |-> "makeClickableLink", url |-> u, text |-> t] : u \in LinkUrls, t \in LinkTexts }

MaxDescLen == 5
WrapWidth == 3
MaxWords == 3

RECURSIVE stringsUpTo(_, _)
stringsUpTo(alphabet, n) ==
    IF n = 0 THEN { << >> }
    ELSE LET shorter == stringsUpTo(alphabet, n - 1)
         IN  shorter \cup { Append(t, c) : t \in shorter, c \in alphabet }

\* every short description over two letters, the space and the paragraph separator,
\* wrapped at a width small enough for words to exceed it
ShortDescriptionCalls ==
    { [fn |-> "formatDescription", description |-> d, width |-> WrapWidth] :
        d \in stringsUpTo({"a", "b", " ", "\\n"}, MaxDescLen) }

\* words around the configured width: 37 + 1 + 37 fits a line of 75, 37 + 1 + 38
\* does not, 75 fills a line, 76 is longer than any line
LongWords ==
    { [i \in 1..1 |-> "a"], [i \in 1..37 |-> "b"], [i \in 1..38 |-> "c"],
      [i \in 1..75 |-> "d"], [i \in 1..76 |-> "e"] }

Separators == { <<" ">>, <<" ", " ">>, <<"\\n">> }

RECURSIVE joined(_, _)
joined(words, separator) ==
    IF Len(words) = 1 THEN words[1]
    ELSE words[1] \o separator \o joined(Tail(words), separator)

\* descriptions of up to MaxWords such words, wrapped at the configured width
LongDescriptionCalls ==
    { [fn |-> "formatDescription", description |-> joined(ws, sep),
       width |-> textContentWidth] :
        ws \in UNION { [1..n -> LongWords] : n \in 1..MaxWords }, sep \in Separators }

DescriptionCalls == ShortDescriptionCalls \cup LongDescriptionCalls

\* builds of the registry from the document, complete or lacking one field
BuildCalls ==
    { [fn |-> "generateCommands", missing |-> f, built |-> t] :
        f \in { << >> } \cup DereferencedFields \cup InterpolatedFields, t \in 0..MaxClock }

\* the block of the first project of the document, its description replaced
ProjectCalls ==
    { [fn |-> "projectBlock",
       project |-> [portfolioData.projects[1] EXCEPT !.description = c.description],
       index |-> 1] : c \in LongDescriptionCalls }
    \cup { [fn |-> "projectBlock",
            project |-> [portfolioData.projects[1] EXCEPT !.description = d],
            index |-> 1] : d \in stringsUpTo({"a", " ", "\\n"}, MaxDescLen) }

FormatterCalls ==
    SkillBarCalls \cup LinkCalls \cup DescriptionCalls \cup BuildCalls \cup ProjectCalls

session == <<commands, currentInput, isTyping, renderedAt, now, pending,
             downloadTimers, download, crashed, lastEvent>>

InitFormatter ==
    /\ commands = <<welcomeCommand>>
    /\ currentInput = << >>
    /\ isTyping = FALSE
    /\ renderedAt = 0
    /\ now = 0
    /\ pending = << >>
    /\ downloadTimers = 0
    /\ download = "none"
    /\ crashed = FALSE
    /\ lastEvent = "mount"
    /\ call \in FormatterCalls
    /\ result = noResult

returned(value) == [state |-> "returned", value |-> value]
thrown(error) == [state |-> "thrown", error |-> error]

CallGenerateSkillBar ==
    /\ call.fn = "generateSkillBar"
    /\ result = noResult
    /\ result' = LET bar == generateSkillBar(call.level)
                 IN  IF bar = RangeError THEN thrown(RangeError) ELSE returned(bar)
    /\ UNCHANGED <<session, call>>

CallMakeClickableLink ==
    /\ call.fn = "makeClickableLink"
    /\ result = noResult
    /\ result' = returned(makeClickableLink2(call.url, call.text))
    /\ UNCHANGED <<session, call>>

CallFormatDescription ==
    /\ call.fn = "formatDescription"
    /\ result = noResult
    /\ result' = returned(formatDescription(call.description, call.width))
    /\ UNCHANGED <<session, call>>

CallGenerateCommands ==
    /\ call.fn = "generateCommands"
    /\ result = noResult
    /\ result' = buildWithout(call.missing, call.built)
    /\ UNCHANGED <<session, call>>

CallProjectBlock ==
    /\ call.fn = "projectBlock"
    /\ result = noResult
    /\ result' = returned(projectBlock(call.project, call.index))
    /\ UNCHANGED <<session, call>>

NextFormatter ==
    \/ CallGenerateSkillBar
    \/ CallMakeClickableLink
    \/ CallFormatDescription
    \/ CallGenerateCommands
    \/ CallProjectBlock

SpecFormatter == InitFormatter /\ [][NextFormatter]_vars

(***************************************************************************)
(* Vocabulary of the properties.                                           *)
(***************************************************************************)
RegisteredNames ==
    {help, about, skills, projects, education, contact, resume, whoami, pwd, ls, date,
     neofetch}

Last(s) == s[Len(s)]

\* a step taken by handleSubmit (time passing leaves lastEvent as it was)
SubmitStep == lastEvent' \in {"submit", "rejected"} /\ now' = now

\* a resolution left the 300 ms await
CompletionStep == Len(pending') < Len(pending)

(***************************************************************************)
(* Properties.                                                             *)
(***************************************************************************)

\* C1: every resolution whose token is non-empty, is not clear or download and is not a
\* registered name has exactly the two lines "Command not found: <token>" and the
\* pointer to help as its output.
C1_UnknownCommandNotFound ==
    \A i \in DOMAIN pending :
        LET token == commandOf(pending[i].input)
        IN  (token # << >> /\ token \notin {clear, downloadName}
               /\ token \notin RegisteredNames)
            => pending[i].output
                 = << <<"Command not found: ">> \o token,
                      <<"Type \"help\" to see available commands.">> >>

\* C1 (the ordinary case): an unknown token that no object inherits is being resolved
C1_Witness ==
    \E i \in DOMAIN pending :
        /\ commandOf(pending[i].input) = foo
        /\ Len(pending[i].output) = 2

\* C2: at most one resolution is pending in every state, and a submit that arrives
\* while isTyping holds starts no resolution.
C2_SingleFlight ==
    /\ [](Len(pending) <= 1)
    /\ [][(SubmitStep /\ isTyping) => pending' = pending]_vars

\* C2: a submit arrived during Processing and was turned away
C2_Witness == isTyping /\ lastEvent = "rejected" /\ Len(pending) = 1

\* C3: Idle -> Processing happens at an accepted submit and appends nothing; the history
\* grows only by the entry of the pending resolution, when its delay has elapsed, and
\* Processing -> Idle happens in no step other than that append.
C3_TransitionOrder ==
    [][ /\ (~isTyping /\ isTyping')
           => (lastEvent' = "submit" /\ commands' = commands
                 /\ Len(pending') = Len(pending) + 1)
        /\ (Len(commands') > Len(commands))
           => (isTyping /\ CompletionStep /\ lastEvent' = "timer"
                 /\ commands' = Append(commands, Head(pending)))
        /\ (isTyping /\ ~isTyping')
           => (CompletionStep /\ commands' = Append(commands, Head(pending))) ]_vars

\* C3: a submission went through all the steps and its entry is the last of the history
C3_Witness ==
    /\ ~isTyping
    /\ lastEvent = "timer"
    /\ Len(commands) = 2
    /\ commandOf(Last(commands).input) = help

\* C4: an accepted clear leaves the history empty and starts no resolution; no entry is
\* ever recorded or pending for a clear input; and an empty history becomes non-empty
\* only by the completion of a (non-clear) resolution.
C4_ClearEmptiesHistory ==
    /\ [][(lastEvent' = "submit" /\ now' = now /\ ~isTyping /\ trim(currentInput) # << >>
             /\ commandOf(currentInput) = clear)
          => (commands' = << >> /\ pending' = pending /\ ~isTyping')]_vars
    /\ [][(commands = << >> /\ commands' # << >>)
          => (CompletionStep /\ commands' = <<Head(pending)>>
                /\ commandOf(Head(pending).input) # clear)]_vars
    /\ [](\A i \in DOMAIN commands : commandOf(commands[i].input) # clear)
    /\ [](\A i \in DOMAIN pending : commandOf(pending[i].input) # clear)

\* C4: clear has just been dispatched
C4_Witness == commands = << >> /\ lastEvent = "submit" /\ ~isTyping /\ pending = << >>

\* C5 (as stated): a submit of a line that is empty after trimming, made while Idle,
\* starts a resolution whose output is exactly one blank line, so that an entry for it
\* is appended.
C5_EmptyInputRecorded ==
    [][(SubmitStep /\ ~isTyping /\ trim(currentInput) = << >>)
       => pending' = Append(pending, [input |-> currentInput, output |-> << << >> >>])]_vars

\* C5 (amended): a submit of a line that is empty after trimming changes nothing, so no
\* output is produced and no entry is appended for it; no resolution and no entry other
\* than the welcome entry has an input that is empty after trimming.
C5_EmptyInputRejected ==
    /\ [][(SubmitStep /\ trim(currentInput) = << >>)
          => UNCHANGED <<commands, currentInput, isTyping, pending, downloadTimers>>]_vars
    /\ [](\A i \in DOMAIN pending : trim(pending[i].input) # << >>)
    /\ [](\A i \in DOMAIN commands :
            trim(commands[i].input) = << >> => commands[i] = welcomeCommand)

\* C5: a whitespace-only line was submitted while Idle
C5_Witness ==
    /\ lastEvent = "rejected"
    /\ ~isTyping
    /\ currentInput # << >>
    /\ trim(currentInput) = << >>

\* C6: the completion of a resolution appends exactly one entry at the end of the
\* history, the earlier entries unchanged, holding the raw input and the resolved
\* output; and the pending resolution holds the input box's text as it was submitted.
C6_AppendsOneEntry ==
    /\ [][CompletionStep
          => commands' = Append(commands, [ input  |-> Head(pending).input,
                                            output |-> Head(pending).output ])]_vars
    /\ [][(Len(pending') > Len(pending)) => Last(pending').input = currentInput]_vars

\* C6 (the ordinary case): an entry holds an input that is neither trimmed nor lower case
C6_Witness ==
    /\ Len(commands) = 2
    /\ commands[1] = welcomeCommand
    /\ commands[2].input # toLowerCase(trim(commands[2].input))
    /\ commands[2].output = registryAt[0][help].output

\* C7: the output of a date resolution is the clock value at the submit that starts it.
C7_DateAtDispatch ==
    [][(lastEvent' = "submit" /\ now' = now /\ Len(pending') > Len(pending)
          /\ commandOf(currentInput) = date)
       => Last(pending').output = << dateString(now) >>]_vars

\* C7 (the case where build and dispatch coincide): date resolved to the current clock
C7_Witness ==
    \E i \in DOMAIN pending :
        /\ commandOf(pending[i].input) = date
        /\ now > 0
        /\ pending[i].output = << dateString(now) >>

\* C8: a resolution or entry whose token is one of the eleven time-invariant registered
\* names has a non-empty output, equal to the output the registry stores for the name.
TimeInvariantNames == RegisteredNames \ {date}

C8_RegisteredOutput ==
    /\ \A i \in DOMAIN pending :
           LET name == commandOf(pending[i].input)
           IN  name \in TimeInvariantNames
               => /\ Len(pending[i].output) > 0
                  /\ \A t \in 0..MaxClock : pending[i].output = registryAt[t][name].output
    /\ \A i \in DOMAIN commands :
           LET name == commandOf(commands[i].input)
           IN  name \in TimeInvariantNames
               => /\ Len(commands[i].output) > 0
                  /\ \A t \in 0..MaxClock : commands[i].output = registryAt[t][name].output

\* C8: resume went through its explicit branch and is in the history
C8_Witness ==
    \E i \in DOMAIN commands :
        /\ commandOf(commands[i].input) = resume
        /\ commands[i].input # resume
        /\ Len(commands[i].output) > 1

\* the first whitespace-delimited token of the trimmed, lower-cased line
firstToken(input) ==
    LET line == toLowerCase(trim(input))
        at == {i \in 1..Len(line) : line[i] \in WhiteSpace}
    IN  IF at = {} THEN line
        ELSE SubSeq(line, 1, (CHOOSE i \in at : \A j \in at : i <= j) - 1)

\* C9: the output of a resolution is the output of its line's first whitespace-delimited
\* token alone (under the registry of some render), whatever the line's letter case,
\* surrounding whitespace and text after the first space or tab.
C9_NormalizedToken ==
    \A i \in DOMAIN pending :
        \E t \in 0..MaxClock :
            pending[i].output = resolveOutput(firstToken(pending[i].input), registryAt[t])

\* C9 (the case of a space separator): a line with upper case, padding and an argument
\* resolved as its bare token does
C9_Witness ==
    \E i \in DOMAIN pending :
        /\ pending[i].input = <<" ">> \o <<"H", "e", "l", "p">> \o <<" ", "x">>
        /\ pending[i].output = registryAt[0][help].output

\* C10: a download trigger firing changes neither the history nor the Processing state
\* nor the pending resolution; a trigger is requested only in the step that produces the
\* informational lines; and the download resolution completes, appending its entry and
\* returning to Idle, while its trigger is still outstanding.
C10_DownloadDetached ==
    [][ /\ (downloadTimers' < downloadTimers)
           => UNCHANGED <<commands, currentInput, isTyping, pending>>
        /\ (downloadTimers' > downloadTimers)
           => /\ downloadTimers' = downloadTimers + 1
              /\ Len(pending') = Len(pending) + 1
              /\ Len(Last(pending').output) = 6
              /\ Last(pending').output[1] = <<"Initiating download...">>
        /\ (CompletionStep /\ commandOf(Head(pending).input) = downloadName)
           => /\ downloadTimers >= 1
              /\ downloadTimers' = downloadTimers
              /\ commands' = Append(commands, Head(pending))
              /\ ~isTyping' ]_vars

\* C10: the download entry is in the history, the dispatcher is Idle, and the trigger
\* has not fired yet
C10_Witness ==
    /\ ~isTyping
    /\ downloadTimers = 1
    /\ commands # << >>
    /\ commandOf(Last(commands).input) = downloadName
    /\ Last(commands).output[1] = <<"Initiating download...">>

\* C11: the dispatcher is never stuck in Processing: whenever isTyping holds, a
\* resolution is pending whose timer will return it to Idle.
C11_NeverStuck == isTyping => pending # << >>

\* C11 (the ordinary case): a resolution completed and the dispatcher is Idle again
C11_Witness ==
    /\ ~isTyping
    /\ ~crashed
    /\ pending = << >>
    /\ Len(commands) = 2
    /\ commandOf(Last(commands).input) = foo

\* C20: a submit whose line is empty after trimming, or that arrives while isTyping
\* holds, changes nothing of the session: not the history, the flag, the input box,
\* the registry, the pending resolutions or the download timers.
C20_RejectedSubmitChangesNothing ==
    [][(SubmitStep /\ (trim(currentInput) = << >> \/ isTyping))
       => UNCHANGED <<commands, currentInput, isTyping, renderedAt, pending,
                      downloadTimers, download, crashed>>]_vars

\* C20: a second download was submitted during Processing and set no second timer
C20_Witness ==
    /\ lastEvent = "rejected"
    /\ isTyping
    /\ commandOf(currentInput) = downloadName
    /\ downloadTimers = 1
    /\ Len(pending) = 1

\* the integer nearest to level / 100 * 20
nearestBars(level) ==
    CHOOSE k \in 0..20 : 100 * k - 50 <= 20 * level /\ 20 * level < 100 * k + 50

\* C12: for every integer level of 0..100, generateSkillBar returns 20 cells: the
\* nearest integer to level/100*20 filled cells, then only blank cells.
C12_SkillBarShape ==
    (call.fn = "generateSkillBar" /\ call.level \in 0..100 /\ result # noResult)
    => /\ result.state = "returned"
       /\ Len(result.value) = 20
       /\ \A i \in 1..20 :
              result.value[i] = IF i <= nearestBars(call.level) THEN "#" ELSE " "

\* C12: level 50 gave ten filled cells and ten blank ones
C12_Witness ==
    /\ call.fn = "generateSkillBar"
    /\ call.level = 50
    /\ result = returned(repeat("#", 10) \o repeat(" ", 10))

\* C13: for every integer level below 0 or above 100, generateSkillBar returns a string
\* and raises no error.
C13_SkillBarNeverThrows ==
    (call.fn = "generateSkillBar" /\ call.level \notin 0..100 /\ result # noResult)
    => result.state = "returned"

\* C13 (a level just outside the range that still rounds into it): 101 gave a full bar
C13_Witness ==
    /\ call.fn = "generateSkillBar"
    /\ call.level = 101
    /\ result = returned(repeat("#", 20))

isLetter(c) == \E i \in 1..26 : UpperCase[i] = c \/ LowerCase[i] = c

\* the url begins with a scheme: letters, then a colon
hasScheme(url) ==
    \E i \in 2..Len(url) : url[i] = ":" /\ \A j \in 1..(i - 1) : isLetter(url[j])

isMarkup(value) == value # << >> /\ value[1] = "<a href=\""

\* the href attribute of a returned anchor: the text between the opening fragment and
\* the fragment that closes the attribute
hrefOf(markup) ==
    LET close == CHOOSE k \in 2..Len(markup) :
                     /\ markup[k] = "\" target=\"_blank\" class=\"text-cyan-400 hover:underline\">"
                     /\ \A j \in 2..(k - 1) :
                            markup[j] # "\" target=\"_blank\" class=\"text-cyan-400 hover:underline\">"
    IN  SubSeq(markup, 2, close - 1)

\* C14: for every url that begins with a scheme, in any letter case and for any scheme,
\* the href of the returned markup is the url unchanged.
C14_NoDoublePrefix ==
    (call.fn = "makeClickableLink" /\ hasScheme(call.url) /\ result # noResult)
    => /\ result.state = "returned"
       /\ isMarkup(result.value)
       /\ hrefOf(result.value) = call.url

\* C14 (the schemes the code knows, and the bare forms): https://a kept as it is
C14_Witness ==
    /\ call.fn = "makeClickableLink"
    /\ call.url = <<"h", "t", "t", "p", "s", ":", "/", "/", "a">>
    /\ result # noResult
    /\ hrefOf(result.value) = call.url

\* C15: for every url that is empty, blank or the placeholder #, makeClickableLink
\* returns the label when one is given and otherwise the url unchanged, with no markup;
\* and applied to a result that is itself such a url, it returns that result.
C15_PlaceholderUnchanged ==
    (call.fn = "makeClickableLink" /\ trim(call.url) \in {<< >>, <<"#">>}
       /\ result # noResult)
    => /\ result.state = "returned"
       /\ result.value = IF call.text # << >> THEN call.text ELSE call.url
       /\ ~isMarkup(result.value)
       /\ trim(result.value) \in {<< >>, <<"#">>}
          => makeClickableLink(result.value) = result.value

\* C15: a padded # with a label gave the label, and a blank url without one gave itself
C15_Witness ==
    /\ call.fn = "makeClickableLink"
    /\ call.url = <<" ", "#", " ">>
    /\ call.text = <<"x">>
    /\ result = returned(<<"x">>)

\* the maximal runs of text between separators, in order
tokens(text, separators) ==
    LET starts == { i \in 1..Len(text) :
                      text[i] \notin separators /\ (i = 1 \/ text[i - 1] \in separators) }
        end(i) == CHOOSE j \in i..Len(text) :
                      /\ j = Len(text) \/ text[j + 1] \in separators
                      /\ \A m \in i..j : text[m] \notin separators
        nth(k) == CHOOSE i \in starts : Cardinality({ j \in starts : j < i }) = k - 1
    IN  [k \in 1..Cardinality(starts) |-> SubSeq(text, nth(k), end(nth(k)))]

\* the text of a description line: what follows the indent, the tree prefix and the
\* label or continuation indent
lineText(line) == IF Len(line) <= 3 THEN << >> ELSE SubSeq(line, 4, Len(line))

RECURSIVE wordsOfLines(_)
wordsOfLines(lines) ==
    IF lines = << >> THEN << >>
    ELSE tokens(lineText(Head(lines)), {" "}) \o wordsOfLines(Tail(lines))

\* C16: the words of the produced description lines, read in order, are exactly the
\* words of the description in their original order.
C16_WrapPreservesWords ==
    (call.fn = "formatDescription" /\ result # noResult)
    => /\ result.state = "returned"
       /\ wordsOfLines(result.value) = tokens(call.description, {" ", "\\n"})

\* C16: an overlong word between two words after doubled spaces kept its place
C16_Witness ==
    /\ call.fn = "formatDescription"
    /\ call.width = textContentWidth
    /\ call.description = joined(<< [i \in 1..37 |-> "b"], [i \in 1..76 |-> "e"],
                                    [i \in 1..1 |-> "a"] >>, <<" ", " ">>)
    /\ result # noResult
    /\ Len(result.value) = 3
    /\ lineText(result.value[2]) = [i \in 1..76 |-> "e"]

\* C17: no description line's text is longer than the width, except a line that is a
\* single word longer than the width.
C17_WidthBound ==
    (call.fn = "formatDescription" /\ result # noResult)
    => /\ result.state = "returned"
       /\ \A k \in 1..Len(result.value) :
            LET text == lineText(result.value[k])
            IN  \/ Len(text) <= call.width
                \/ \A i \in 1..Len(text) : text[i] # " "

\* C17: at width 75 two words of 37 shared a line of exactly 75 and a third went to
\* the next line
C17_Witness ==
    /\ call.fn = "formatDescription"
    /\ call.width = 75
    /\ call.description = joined(<< [i \in 1..37 |-> "b"], [i \in 1..37 |-> "b"],
                                    [i \in 1..1 |-> "a"] >>, <<" ">>)
    /\ result # noResult
    /\ Len(result.value) = 2
    /\ Len(lineText(result.value[1])) = 75
    /\ lineText(result.value[2]) = <<"a">>

\* C18: every render builds the registry anew from the same document, and for every
\* command except date the newly built output lines equal those built before.
C18_BuildDeterministic ==
    [][\A name \in TimeInvariantNames : COMMANDS'[name].output = COMMANDS[name].output]_vars

\* C18: the registry has been rebuilt at a later clock value than the first build
C18_Witness ==
    /\ renderedAt = MaxClock
    /\ lastEvent = "timer"
    /\ COMMANDS[date].output # registryAt[0][date].output

\* C19: a build from a document that lacks a field is refused with an error.
C19_MissingFieldRefused ==
    (call.fn = "generateCommands" /\ call.missing # << >> /\ result # noResult)
    => result.state = "thrown"

\* C19: the build from a document without personal.name ended with an error
C19_Witness ==
    /\ call.fn = "generateCommands"
    /\ call.missing = <<"personal", "name">>
    /\ result = [state |-> "thrown", error |-> TypeError]

\* a line carrying the Description label behind the first-item tree prefix
isLabelLine(line) ==
    /\ Len(line) >= 3
    /\ line[2] = "|-- "
    /\ line[3] = "Description: "

\* C21: in the block of a project, whatever its description, exactly one line carries
\* the Description label with the first-item prefix, it is the line after the numbered
\* heading, and every further description line (those before the Tech Stack, GitHub
\* and Status lines and the closing blank line) uses the continuation prefix.
C21_OneLabelLine ==
    (call.fn = "projectBlock" /\ result # noResult)
    => /\ result.state = "returned"
       /\ { k \in 1..Len(result.value) : isLabelLine(result.value[k]) } = {2}
       /\ \A k \in 3..(Len(result.value) - 4) :
              /\ Len(result.value[k]) >= 2
              /\ result.value[k][2] = "|   "

\* C21 (ordinary text): a wrapped description gave the label line after the heading and
\* continuation lines after it
C21_Witness ==
    /\ call.fn = "projectBlock"
    /\ call.project.description
         = joined(<< [i \in 1..38 |-> "c"], [i \in 1..38 |-> "c"], [i \in 1..1 |-> "a"] >>,
                  <<"\\n">>)
    /\ result # noResult
    /\ Len(result.value) = 8
    /\ isLabelLine(result.value[2])
    /\ result.value[3][2] = "|   "
    /\ result.value[4][2] = "|   "

\* the lines written in the source or built from the document alone
AuthoredLines ==
    UNION { { registryAt[t][name].output[k] : k \in 1..Len(registryAt[t][name].output) } :
              t \in 0..MaxClock, name \in RegisteredNames }
    \cup { welcomeCommand.output[k] : k \in 1..Len(welcomeCommand.output) }
    \cup { downloadOutput[k] : k \in 1..Len(downloadOutput) }
    \cup { << >>, <<"Type \"help\" to see available commands.">> }

\* C22: in every history entry, every line rendered as HTML is a line written in the
\* source or built from the document alone, whatever the user typed.
C22_NoTypedTextAsMarkup ==
    \A i \in DOMAIN commands :
        \A k \in 1..Len(renderedAsHtml(commands[i])) :
            renderedAsHtml(commands[i])[k] \in AuthoredLines

\* C22: the unknown token <b> is in the history: echoed as text, and carried by a line
\* that is rendered as HTML
C22_Witness ==
    /\ Len(commands) = 2
    /\ renderedAsText(commands[2]) = <<"<", "b", ">">>
    /\ renderedAsHtml(commands[2])[1] = <<"Command not found: ", "<", "b", ">">>

====
